---- MODULE Spec2Model ----
(***************************************************************************)
(* Model of main.py: the Telegram chat bot's text normalisation, group     *)
(* addressing gate, utterance cleaning, price-intent routing, market item  *)
(* matching and the per-user bounded conversation history.                 *)
(*                                                                         *)
(* A Python str is a sequence of characters; a character is a TLA+ string  *)
(* naming one code point.  ASCII letters and digits are themselves, the    *)
(* other code points carry a name ("ZWNJ", "TAB", "fa_dal", ...).          *)
(***************************************************************************)
EXTENDS Integers, Sequences, FiniteSets, Bags, TLC

\* history     the per-user deques of turns (line 72)
\* log         per user, every turn appended since the last reset, for comparison
\* tasks       the handler coroutines: where each is suspended, and its locals
\* nmsgs       the number of updates dispatched so far
\* ev          the last step taken
\* BRSAPI_KEY  whether the market-data key is configured (line 24)
\* norm, match the argument and the results of _norm and of find_best_matches
VARIABLES history, log, tasks, nmsgs, ev, BRSAPI_KEY, norm, match

vars == <<history, log, tasks, nmsgs, ev, BRSAPI_KEY, norm, match>>

(***************************************************************************)
(* Characters                                                              *)
(***************************************************************************)
ZWNJ == "ZWNJ"
RLM == "RLM"
LRM == "LRM"
BOM == "BOM"
SP == " "
TAB == "TAB"
NL == "NL"

\* str.isspace(), which both str.strip() and the regex class \s use
WhiteSpace == {SP, TAB, NL}

UC == <<"A", "B", "C", "D", "E", "F", "G", "H", "I", "J", "K", "L", "M",
        "N", "O", "P", "Q", "R", "S", "T", "U", "V", "W", "X", "Y", "Z">>
LC == <<"a", "b", "c", "d", "e", "f", "g", "h", "i", "j", "k", "l", "m",
        "n", "o", "p", "q", "r", "s", "t", "u", "v", "w", "x", "y", "z">>

\* str.lower() / str.upper() on one character; only ASCII letters have case here
LowerChar(c) ==
  IF \E i \in 1..26 : UC[i] = c THEN LC[CHOOSE i \in 1..26 : UC[i] = c] ELSE c

UpperChar(c) ==
  IF \E i \in 1..26 : LC[i] = c THEN UC[CHOOSE i \in 1..26 : LC[i] = c] ELSE c

AsciiLetters == {UC[i] : i \in 1..26} \cup {LC[i] : i \in 1..26}
Digits == {"1", "8", "2", "4"}
FaDigits == {"fa_1", "fa_8"}
FaLetters == {"fa_alef", "fa_be", "fa_pe", "fa_te", "fa_jim", "fa_che", "fa_khe",
              "fa_hah", "fa_dal", "fa_re", "fa_ze", "fa_sin", "fa_ta", "fa_zah", "fa_ain",
              "fa_qaf", "fa_kaf", "fa_gaf", "fa_lam", "fa_mim", "fa_nun",
              "fa_vav", "fa_he", "fa_ye"}

\* the regex class \w (Unicode letters, digits and underscore)
WordChars == AsciiLetters \cup Digits \cup FaDigits \cup FaLetters \cup {"_"}

(***************************************************************************)
(* str methods                                                             *)
(***************************************************************************)
\* s[i:], 0-based i as in Python
SliceFrom(s, i) == IF i >= Len(s) THEN <<>> ELSE SubSeq(s, i + 1, Len(s))

\* s[:n]
SliceTo(s, n) == IF n >= Len(s) THEN s ELSE SubSeq(s, 1, n)

\* s.replace(c, "") for a one-character c
RemoveChar(s, c) == SelectSeq(s, LAMBDA x : x # c)

Lower(s) == [i \in 1..Len(s) |-> LowerChar(s[i])]

Upper(s) == [i \in 1..Len(s) |-> UpperChar(s[i])]

RECURSIVE LStrip(_)
LStrip(s) == IF s # <<>> /\ Head(s) \in WhiteSpace THEN LStrip(Tail(s)) ELSE s

RECURSIVE RStrip(_)
RStrip(s) ==
  IF s # <<>> /\ s[Len(s)] \in WhiteSpace THEN RStrip(SubSeq(s, 1, Len(s) - 1)) ELSE s

\* s.strip()
Strip(s) == RStrip(LStrip(s))

\* re.sub(r"\s+", " ", s)
RECURSIVE CollapseSpace(_)
CollapseSpace(s) ==
  IF s = <<>> THEN <<>>
  ELSE IF Head(s) \in WhiteSpace THEN <<SP>> \o CollapseSpace(LStrip(s))
  ELSE <<Head(s)>> \o CollapseSpace(Tail(s))

\* s.startswith(p)
StartsWith(s, p) == Len(p) <= Len(s) /\ SubSeq(s, 1, Len(p)) = p

\* p in s
Contains(s, p) == \E i \in 0..(Len(s) - Len(p)) : SubSeq(s, i + 1, i + Len(p)) = p

\* s.replace(p, "") for a non-empty p: leftmost non-overlapping occurrences
RECURSIVE ReplaceAll(_, _)
ReplaceAll(s, p) ==
  IF s = <<>> THEN <<>>
  ELSE IF StartsWith(s, p) THEN ReplaceAll(SliceFrom(s, Len(p)), p)
  ELSE <<Head(s)>> \o ReplaceAll(Tail(s), p)

\* the first whitespace-delimited word of an lstripped s
RECURSIVE FirstWord(_)
FirstWord(s) ==
  IF s = <<>> \/ Head(s) \in WhiteSpace THEN <<>> ELSE <<Head(s)>> \o FirstWord(Tail(s))

\* s.split(): the words between whitespace runs
RECURSIVE Split(_)
Split(s) ==
  LET t == LStrip(s) IN
  IF t = <<>> THEN <<>>
  ELSE LET w == FirstWord(t) IN <<w>> \o Split(SliceFrom(t, Len(w)))

\* s.split(maxsplit=1)
SplitMax1(s) ==
  LET t == LStrip(s) IN
  IF t = <<>> THEN <<>>
  ELSE LET w == FirstWord(t)
           rest == LStrip(SliceFrom(t, Len(w)))
       IN IF rest = <<>> THEN <<w>> ELSE <<w, rest>>

(***************************************************************************)
(* _norm                                                                   *)
(***************************************************************************)
\* the four replace() calls of _norm
StripInvisible(s) == RemoveChar(RemoveChar(RemoveChar(RemoveChar(s, ZWNJ), RLM), LRM), BOM)

\* a slip: the text is trimmed before the invisible characters are removed
norm_strip_first(s) ==
  IF s = <<>> THEN <<>>
  ELSE CollapseSpace(Lower(StripInvisible(Strip(s))))

_norm(s) ==
  IF s = <<>> THEN <<>>
  ELSE CollapseSpace(Lower(Strip(StripInvisible(s))))

(***************************************************************************)
(* Configuration and bot identity                                          *)
(***************************************************************************)
\* the default of os.getenv("BOT_CALL_NAME", ...): sin sin SPACE khe re sin ye
BOT_CALL_NAME == <<"fa_sin", "fa_sin", SP, "fa_khe", "fa_re", "fa_sin", "fa_ye">>

\* context.bot.username, the platform handle of the bot
bot_username == <<"B", "o", "t">>

(***************************************************************************)
(* Group reply rules and utterance cleaning                                *)
(***************************************************************************)
should_reply_in_group(text, reply_to_bot) ==
  IF text = <<>> THEN FALSE
  ELSE
    LET t == _norm(text)
        bu == _norm(bot_username)
        call_name == _norm(BOT_CALL_NAME)
        call_name_compact == RemoveChar(call_name, SP)
    IN \/ StartsWith(t, call_name)
       \/ StartsWith(RemoveChar(t, SP), call_name_compact)
       \/ (bu # <<>> /\ Contains(t, <<"@">> \o bu))
       \/ reply_to_bot

clean_user_text(text, username) ==
  LET raw0 == Strip(text)
      t_norm == _norm(raw0)
      bn == _norm(username)
      cn == _norm(BOT_CALL_NAME)
      cn_compact == RemoveChar(cn, SP)
      parts == SplitMax1(raw0)
      raw1 == IF StartsWith(t_norm, cn)
              THEN Strip(SliceFrom(raw0, Len(BOT_CALL_NAME)))
              ELSE IF StartsWith(RemoveChar(t_norm, SP), cn_compact)
                   THEN (IF Len(parts) > 1 THEN Strip(parts[2]) ELSE <<>>)
                   ELSE raw0
      raw2 == IF bn # <<>>
              THEN Strip(ReplaceAll(ReplaceAll(raw1, <<"@">> \o username),
                                    <<"@">> \o Lower(username)))
              ELSE raw1
  IN Strip(raw2)

(***************************************************************************)
(* Price intent                                                            *)
(***************************************************************************)
KW_qeymat == <<"fa_qaf", "fa_ye", "fa_mim", "fa_te">>
KW_nerkh == <<"fa_nun", "fa_re", "fa_khe">>
KW_chande == <<"fa_che", "fa_nun", "fa_dal", "fa_he">>
KW_chand == <<"fa_che", "fa_nun", "fa_dal">>
KW_alan == <<"fa_alef", "fa_lam", "fa_alef", "fa_nun">>
KW_lahze == <<"fa_lam", "fa_hah", "fa_zah", "fa_he">>
KW_lahzei == <<"fa_lam", "fa_hah", "fa_zah", "fa_he", ZWNJ, "fa_alef", "fa_ye">>
KW_emruz == <<"fa_alef", "fa_mim", "fa_re", "fa_vav", "fa_ze">>
KW_dolar == <<"fa_dal", "fa_lam", "fa_alef", "fa_re">>
KW_sekke == <<"fa_sin", "fa_kaf", "fa_he">>
KW_tala == <<"fa_ta", "fa_lam", "fa_alef">>
KW_fa18 == <<"fa_1", "fa_8">>
KW_18 == <<"1", "8">>

PRICE_KEYWORDS ==
  { KW_qeymat, KW_nerkh, KW_chande, KW_chand, KW_alan, KW_lahze, KW_lahzei, KW_emruz,
    KW_dolar, <<"fa_ye", "fa_vav", "fa_re", "fa_vav">>,
    <<"fa_pe", "fa_vav", "fa_nun", "fa_dal">>, <<"fa_dal", "fa_re", "fa_he", "fa_mim">>,
    <<"fa_lam", "fa_ye", "fa_re">>, <<"fa_ye", "fa_vav", "fa_alef", "fa_nun">>,
    KW_sekke, <<"fa_alef", "fa_mim", "fa_alef", "fa_mim", "fa_ye">>,
    <<"fa_be", "fa_he", "fa_alef", "fa_re">>, <<"fa_nun", "fa_ye", "fa_mim">>,
    <<"fa_re", "fa_be", "fa_ain">>, <<"fa_gaf", "fa_re", "fa_mim", "fa_ye">>,
    KW_tala, <<"fa_ta", "fa_lam", "fa_alef", "fa_ye">>, KW_fa18, KW_18, <<"2", "4">>,
    <<"fa_alef", "fa_vav", "fa_nun", "fa_sin">>, <<"fa_alef", "fa_nun", "fa_sin">>,
    <<"fa_alef", "fa_re", "fa_ze">>, <<"fa_te", "fa_te", "fa_re">>,
    <<"b", "t", "c">>, <<"b", "i", "t", "c", "o", "i", "n">>,
    <<"fa_be", "fa_ye", "fa_te">>,
    <<"fa_be", "fa_ye", "fa_te", "fa_kaf", "fa_vav", "fa_ye", "fa_nun">> }

looks_like_price_request(user_text) ==
  LET txt == _norm(user_text)
  IN txt # <<>> /\ \E k \in PRICE_KEYWORDS : Contains(txt, k)

\* characters outside \w, U+0600..U+06FF and \s become a space; runs collapse; strip
normalize_query_for_price(user_text) ==
  LET txt == Strip(user_text)
      sub == [i \in 1..Len(txt) |->
                IF txt[i] \in WordChars \cup FaLetters \cup FaDigits \cup WhiteSpace
                THEN txt[i] ELSE SP]
  IN Strip(CollapseSpace(sub))

(***************************************************************************)
(* find_best_matches                                                       *)
(***************************************************************************)
\* the stop words dropped from the query tokens
STOP_TOKENS ==
  {KW_qeymat, KW_nerkh, KW_alan, KW_emruz, KW_lahze, KW_lahzei, KW_chande, KW_chand}

\* the maximal runs of \w characters of s, left to right
RECURSIVE WordRun(_)
WordRun(s) ==
  IF s = <<>> \/ Head(s) \notin WordChars THEN <<>> ELSE <<Head(s)>> \o WordRun(Tail(s))

RECURSIVE WordRuns(_)
WordRuns(s) ==
  IF s = <<>> THEN <<>>
  ELSE IF Head(s) \notin WordChars THEN WordRuns(Tail(s))
  ELSE LET w == WordRun(s) IN <<w>> \o WordRuns(SliceFrom(s, Len(w)))

IsSymbolWord(w) ==
  /\ Len(w) >= 3
  /\ Len(w) <= 6
  /\ \A i \in 1..Len(w) : w[i] \in AsciiLetters

\* re.search(r"\b([A-Za-z]{3,6})\b", q): the leftmost whole word made of three
\* to six ASCII letters, upper-cased; <<>> stands for None
SymGuess(q) ==
  LET ws == SelectSeq(WordRuns(q), IsSymbolWord)
  IN IF ws = <<>> THEN <<>> ELSE Upper(ws[1])

RECURSIVE CountHits(_, _)
CountHits(tokens, hay) ==
  IF tokens = <<>> THEN 0
  ELSE (IF Contains(hay, Head(tokens)) THEN 1 ELSE 0) + CountHits(Tail(tokens), hay)

\* the score of one item, lines 208-225
Score(it, q) ==
  LET ql == _norm(q)
      tokens == SelectSeq(Split(ql), LAMBDA t : t \notin STOP_TOKENS)
      sym_guess == SymGuess(q)
      hay == Lower(it.name \o <<SP>> \o it.name_en \o <<SP>> \o it.symbol)
  IN (IF sym_guess # <<>> /\ Upper(it.symbol) = sym_guess THEN 50 ELSE 0)
     + 10 * CountHits(tokens, hay)
     + (IF /\ Contains(ql, KW_dolar)
           /\ (Contains(Lower(it.symbol), <<"u", "s", "d">>) \/ Contains(it.name, KW_dolar))
        THEN 8 ELSE 0)
     + (IF Contains(ql, KW_sekke) /\ Contains(it.name, KW_sekke) THEN 8 ELSE 0)
     + (IF /\ (Contains(ql, KW_tala) \/ Contains(ql, KW_fa18) \/ Contains(ql, KW_18))
           /\ (Contains(it.name, KW_tala) \/ Contains(Lower(it.name_en), <<"g", "o", "l", "d">>))
        THEN 6 ELSE 0)

\* the loop of lines 207-228: the (score, item) pairs of the items scoring above 0
RECURSIVE Scored(_, _)
Scored(items, q) ==
  IF items = <<>> THEN <<>>
  ELSE LET sc == Score(Head(items), q)
       IN (IF sc > 0 THEN <<[score |-> sc, it |-> Head(items)]>> ELSE <<>>)
          \o Scored(Tail(items), q)

\* a slip: an entry goes in front of the entries of equal score
RECURSIVE InsertDescFront(_, _)
InsertDescFront(sorted, e) ==
  IF sorted = <<>> THEN <<e>>
  ELSE IF Head(sorted).score > e.score
       THEN <<Head(sorted)>> \o InsertDescFront(Tail(sorted), e)
       ELSE <<e>> \o sorted

\* insertion that keeps entries of equal score in arrival order
RECURSIVE InsertDesc(_, _)
InsertDesc(sorted, e) ==
  IF sorted = <<>> THEN <<e>>
  ELSE IF Head(sorted).score >= e.score
       THEN <<Head(sorted)>> \o InsertDesc(Tail(sorted), e)
       ELSE <<e>> \o sorted

\* list.sort(key=score, reverse=True): stable, descending
RECURSIVE SortDescFrom(_, _)
SortDescFrom(acc, rest) ==
  IF rest = <<>> THEN acc ELSE SortDescFrom(InsertDesc(acc, Head(rest)), Tail(rest))

\* a slip: ascending sort followed by a reversal, which reverses the ties
RECURSIVE SortDescFrontFrom(_, _)
SortDescFrontFrom(acc, rest) ==
  IF rest = <<>> THEN acc
  ELSE SortDescFrontFrom(InsertDescFront(acc, Head(rest)), Tail(rest))

SortDescReversingTies(scored) == SortDescFrontFrom(<<>>, scored)

SortDesc(scored) == SortDescFrom(<<>>, scored)

find_best_matches(items, q, max_n) ==
  LET top == SliceTo(SortDesc(Scored(items, q)), max_n)
  IN [i \in 1..Len(top) |-> top[i].it]

\* the limit send_prices passes to find_best_matches and to the fallback slice
LIMIT == 6

\* a slip: no fallback to the head of the catalog
select_matches_no_fallback(items, query) ==
  find_best_matches(items, normalize_query_for_price(query), LIMIT)

\* send_prices, lines 275-278: the items of the price report
select_matches(items, query) ==
  LET qn == normalize_query_for_price(query)
      matches == find_best_matches(items, qn, LIMIT)
  IN IF matches = <<>> THEN SliceTo(items, LIMIT) ELSE matches

(***************************************************************************)
(* format_price_lines                                                      *)
(***************************************************************************)
\* one report line: "- name (symbol): price"; the optional unit and change
\* parts are absent from the items modelled here
PriceLine(it) ==
  LET name == IF it.name # <<>> THEN it.name
              ELSE IF it.name_en # <<>> THEN it.name_en
              ELSE IF it.symbol # <<>> THEN it.symbol ELSE <<"-">>
      sym_part == IF it.symbol # <<>> THEN <<SP, "(">> \o it.symbol \o <<")">> ELSE <<>>
  IN <<"-", SP>> \o name \o sym_part \o <<":", SP>> \o it.price

RECURSIVE JoinLines(_)
JoinLines(items) ==
  IF items = <<>> THEN <<>>
  ELSE PriceLine(Head(items))
       \o (IF Len(items) > 1 THEN <<NL>> \o JoinLines(Tail(items)) ELSE <<>>)

format_price_lines(items) == <<"<prices-header>", NL>> \o JoinLines(items)

(***************************************************************************)
(* Conversation memory                                                     *)
(***************************************************************************)
MAX_TURNS == 10

\* a slip: an odd capacity
HistoryMaxLenOdd == MAX_TURNS * 2 + 1

\* deque(maxlen=MAX_TURNS * 2)
HistoryMaxLen == MAX_TURNS * 2

\* a slip: a full buffer drops the new turn instead of the oldest
deque_append_drop_new(d, x) ==
  IF Len(d) >= HistoryMaxLen THEN d ELSE Append(d, x)

\* deque.append on a bounded deque: a full deque discards its leftmost entry
deque_append(d, x) ==
  IF Len(d) >= HistoryMaxLen THEN Append(Tail(d), x) ELSE Append(d, x)

Turn(role, content) == [role |-> role, content |-> content]

(***************************************************************************)
(* Inputs                                                                  *)
(***************************************************************************)
Users == {"u1", "u2"}

\* the concurrently running handler coroutines
MaxTasks == 2

\* the updates delivered in one run
MaxMsgs == 2

T_hi == <<"h", "i">>
T_call_hi == BOT_CALL_NAME \o <<SP>> \o T_hi
T_mention == <<"@", "B", "o", "t">>
T_mention_hi == <<"h", "i", SP, "@", "b", "o", "t">>
T_dolar == KW_dolar
T_compact_dolar == <<"fa_sin", "fa_sin", ZWNJ, "fa_khe", "fa_re", "fa_sin", "fa_ye", SP>> \o KW_dolar
T_none == <<>>

Update(uid, chat_type, text, reply_to_bot) ==
  [uid |-> uid, chat_type |-> chat_type, text |-> text, reply_to_bot |-> reply_to_bot]

\* the text updates delivered to handle_message
Updates ==
  UNION {{ Update(uid, "private", T_hi, FALSE),
           Update(uid, "group", T_hi, FALSE),
           Update(uid, "group", T_hi, TRUE),
           Update(uid, "supergroup", T_call_hi, FALSE),
           Update(uid, "group", T_mention, FALSE),
           Update(uid, "supergroup", T_mention_hi, FALSE),
           Update(uid, "private", T_dolar, FALSE),
           Update(uid, "group", T_dolar, FALSE),
           Update(uid, "supergroup", T_compact_dolar, FALSE),
           Update(uid, "private", T_none, FALSE) } : uid \in Users}

\* what the completion service returns as the stripped content of the first choice
Completions == {<<"o", "k">>, <<>>}

\* the exceptions raised by an upstream call: an HTTP transport error and a
\* malformed body (not an httpx error)
UpstreamErrors == {"ReadTimeout", "JSONDecodeError"}

\* the exception a failing reply_text raises
PlatformErrors == {"NetworkError"}

I_usd == [name |-> KW_dolar, name_en |-> <<"U", "S">>, symbol |-> <<"U", "S", "D">>, price |-> <<"1">>]
I_usd2 == [name |-> KW_dolar, name_en |-> <<>>, symbol |-> <<"u", "s", "d", "2">>, price |-> <<"2">>]
I_coin == [name |-> KW_sekke, name_en |-> <<>>, symbol |-> <<"S", "E", "K">>, price |-> <<"4">>]
I_gold == [name |-> <<>>, name_en |-> <<"G", "o", "l", "d">>, symbol |-> <<"X", "A", "U">>, price |-> <<"8">>]

\* an item no query of the model matches; n tells the items apart
Filler(n) == [name |-> <<"fa_ze">>, name_en |-> <<>>, symbol |-> <<>>, price |-> [i \in 1..n |-> "1"]]

\* the item lists the market-data service returns to a handler
FetchedItems == {<<>>, <<I_coin, I_usd>>}

PriceCmdArgs == {<<>>}

(***************************************************************************)
(* Literal reply texts                                                     *)
(***************************************************************************)
MSG_NO_ANSWER == <<"<no-answer>">>
MSG_NO_KEY == <<"<no-brsapi-key>">>
MSG_NO_DATA == <<"<no-data>">>
MSG_RESET == <<"<memory-cleared>">>
MSG_START == <<"<hello>">>
\* the default query of price_cmd: dolar tala sekke
DEFAULT_PRICE_QUERY == KW_dolar \o <<SP>> \o KW_tala \o <<SP>> \o KW_sekke

ChatErrorText(e) == <<"<error>", e>>
PriceErrorText(e) == <<"<price-error>", e>>

(***************************************************************************)
(* State                                                                   *)
(***************************************************************************)
\* a handler coroutine: where it is suspended and the locals it still needs
Task(pc, kind, uid, user_text, answer) ==
  [pc |-> pc, kind |-> kind, uid |-> uid, user_text |-> user_text, answer |-> answer]

\* no coroutine: before a handler is called and after it has left
Idle == Task("idle", "none", "none", <<>>, <<>>)

NoUpdate == [uid |-> "none", chat_type |-> "none", text |-> <<>>, reply_to_bot |-> FALSE]

\* the last step taken: the operation, the coroutine before and after the step,
\* the update a handler was called with, how the coroutine left the handler (if
\* it did) and the exception the awaited call raised (if it did)
Event(op, task, now, update, exit, exc) ==
  [op |-> op, task |-> task, now |-> now, update |-> update, exit |-> exit, exc |-> exc]

NormIdle == [pc |-> "off", in |-> <<>>, out1 |-> <<>>, out2 |-> <<>>]
MatchIdle == [pc |-> "off", items |-> <<>>, q |-> <<>>, max_n |-> 0, out |-> <<>>, sel |-> <<>>]

Init ==
  /\ history = [u \in Users |-> <<>>]
  /\ log = [u \in Users |-> <<>>]
  /\ tasks = EmptyBag
  /\ nmsgs = 0
  /\ ev = Event("init", Idle, Idle, NoUpdate, "none", "none")
  /\ BRSAPI_KEY \in BOOLEAN
  /\ norm = NormIdle
  /\ match = MatchIdle

\* the coroutines suspended at an await
Suspended == BagToSet(tasks)

\* a handler is called and suspends as coroutine t, or returns at once (Idle)
Spawn(t) == IF t = Idle THEN tasks ELSE tasks (+) SetToBag({t})

\* coroutine t resumes and suspends again as t2, or leaves its handler (Idle)
Step(t, t2) == Spawn(t2) (-) SetToBag({t})

\* coroutine t leaves its handler
Finish(t, op, exit) ==
  /\ tasks' = tasks (-) SetToBag({t})
  /\ ev' = Event(op, t, Idle, NoUpdate, exit, "none")

(***************************************************************************)
(* send_prices                                                             *)
(***************************************************************************)
\* send_prices up to its first await: line 267 without a key, line 270 with one
send_prices_start(kind, uid, query) ==
  IF ~BRSAPI_KEY THEN Task("reply", kind, uid, query, MSG_NO_KEY)
  ELSE Task("fetch", kind, uid, query, <<>>)

\* fetch_brsapi_items returns: lines 271-280
FetchReturns(t, items) ==
  LET t2 == IF items = <<>> THEN [t EXCEPT !.pc = "reply", !.answer = MSG_NO_DATA]
            ELSE [t EXCEPT !.pc = "reply_prices",
                           !.answer = format_price_lines(select_matches(items, t.user_text))]
  IN /\ t.pc = "fetch"
     /\ tasks' = Step(t, t2)
     /\ ev' = Event("FetchReturns", t, t2, NoUpdate, "none", "none")
     /\ UNCHANGED <<history, log, nmsgs, BRSAPI_KEY, norm, match>>

\* fetch_brsapi_items raises: caught at line 281, reported at line 282
FetchRaises(t, e) ==
  LET t2 == [t EXCEPT !.pc = "reply", !.answer = PriceErrorText(e)]
  IN /\ t.pc = "fetch"
     /\ tasks' = Step(t, t2)
     /\ ev' = Event("FetchRaises", t, t2, NoUpdate, "none", e)
     /\ UNCHANGED <<history, log, nmsgs, BRSAPI_KEY, norm, match>>

\* reply_text of line 280 succeeds and send_prices returns
PricesReplyDone(t) ==
  /\ t.pc = "reply_prices"
  /\ Finish(t, "PricesReplyDone", "returned")
  /\ UNCHANGED <<history, log, nmsgs, BRSAPI_KEY, norm, match>>

\* reply_text of line 280 raises inside the try: caught, reported at line 282
PricesReplyFails(t, e) ==
  LET t2 == [t EXCEPT !.pc = "reply", !.answer = PriceErrorText(e)]
  IN /\ t.pc = "reply_prices"
     /\ tasks' = Step(t, t2)
     /\ ev' = Event("PricesReplyFails", t, t2, NoUpdate, "none", e)
     /\ UNCHANGED <<history, log, nmsgs, BRSAPI_KEY, norm, match>>

(***************************************************************************)
(* handle_message                                                          *)
(***************************************************************************)
\* line 319
handle_message_user_text(update) == clean_user_text(Strip(update.text), bot_username)

\* a slip: the group rule is not applied
handle_message_route_no_gate(update) ==
  IF update.text = <<>> THEN "ignore"
  ELSE IF handle_message_user_text(update) = <<>> THEN "ignore"
  ELSE IF looks_like_price_request(handle_message_user_text(update)) THEN "price"
  ELSE "chat"

\* a slip: no return after send_prices, the price request reaches the chat path
handle_message_route_no_price_return(update) ==
  IF update.text = <<>> THEN "ignore"
  ELSE IF /\ update.chat_type \in {"group", "supergroup"}
          /\ ~should_reply_in_group(update.text, update.reply_to_bot) THEN "ignore"
  ELSE IF handle_message_user_text(update) = <<>> THEN "ignore"
  ELSE "chat"

\* the early returns and the branch of lines 307-326
handle_message_route(update) ==
  IF update.text = <<>> THEN "ignore"
  ELSE IF /\ update.chat_type \in {"group", "supergroup"}
          /\ ~should_reply_in_group(update.text, update.reply_to_bot) THEN "ignore"
  ELSE IF handle_message_user_text(update) = <<>> THEN "ignore"
  ELSE IF looks_like_price_request(handle_message_user_text(update)) THEN "price"
  ELSE "chat"

\* handle_message_route and handle_message_user_text, tabulated over the updates
RouteOf == [update \in Updates |-> handle_message_route(update)]

UserTextOf == [update \in Updates |-> handle_message_user_text(update)]

\* handle_message from its call to its first await or its early return
HandleMessage(update) ==
  LET route == RouteOf[update]
      user_text == UserTextOf[update]
      t2 == IF route = "ignore" THEN Idle
            ELSE IF route = "price" THEN send_prices_start("message", update.uid, user_text)
            ELSE Task("typing", "message", update.uid, user_text, <<>>)
  IN /\ nmsgs' = nmsgs + 1
     /\ tasks' = Spawn(t2)
     /\ ev' = Event("HandleMessage", Idle, t2, update,
                    IF route = "ignore" THEN "returned" ELSE "none", "none")
     /\ UNCHANGED <<history, log, BRSAPI_KEY, norm, match>>

\* send_chat_action of line 334 succeeds; avalai_chat is awaited
TypingDone(t) ==
  LET t2 == [t EXCEPT !.pc = "chat"]
  IN /\ t.pc = "typing"
     /\ tasks' = Step(t, t2)
     /\ ev' = Event("TypingDone", t, t2, NoUpdate, "none", "none")
     /\ UNCHANGED <<history, log, nmsgs, BRSAPI_KEY, norm, match>>

\* send_chat_action raises outside any try: the handler raises
TypingFails(t) ==
  /\ t.pc = "typing"
  /\ Finish(t, "TypingFails", "raised")
  /\ UNCHANGED <<history, log, nmsgs, BRSAPI_KEY, norm, match>>

\* a slip: the assistant turn is not appended together with the user turn
append_exchange_user_only(h, uid, user_text, answer) ==
  [h EXCEPT ![uid] = deque_append(@, Turn("user", user_text))]

\* lines 343-344
append_exchange(h, uid, user_text, answer) ==
  [h EXCEPT ![uid] = deque_append(deque_append(@, Turn("user", user_text)),
                                  Turn("assistant", answer))]

\* a slip: only the HTTP errors are caught
chat_catches_http_only(e) == e = "ReadTimeout"

\* except Exception of line 340
chat_catches(e) == TRUE

\* avalai_chat returns content: lines 338-346, up to the await of reply_text
ChatReturns(t, content) ==
  LET answer == IF content = <<>> THEN MSG_NO_ANSWER ELSE content
      t2 == [t EXCEPT !.pc = "reply", !.answer = answer]
  IN /\ t.pc = "chat"
     /\ history' = append_exchange(history, t.uid, t.user_text, answer)
     /\ log' = [log EXCEPT ![t.uid] = @ \o <<Turn("user", t.user_text), Turn("assistant", answer)>>]
     /\ tasks' = Step(t, t2)
     /\ ev' = Event("ChatReturns", t, t2, NoUpdate, "none", "none")
     /\ UNCHANGED <<nmsgs, BRSAPI_KEY, norm, match>>

\* avalai_chat raises e: lines 340-346, up to the await of reply_text
ChatRaises(t, e) ==
  LET answer == ChatErrorText(e)
      t2 == [t EXCEPT !.pc = "reply", !.answer = answer]
  IN /\ t.pc = "chat"
     /\ IF chat_catches(e)
        THEN /\ history' = append_exchange(history, t.uid, t.user_text, answer)
             /\ log' = [log EXCEPT ![t.uid] =
                          @ \o <<Turn("user", t.user_text), Turn("assistant", answer)>>]
             /\ tasks' = Step(t, t2)
             /\ ev' = Event("ChatRaises", t, t2, NoUpdate, "none", e)
        ELSE /\ tasks' = Step(t, Idle)
             /\ ev' = Event("ChatRaises", t, Idle, NoUpdate, "raised", e)
             /\ UNCHANGED <<history, log>>
     /\ UNCHANGED <<nmsgs, BRSAPI_KEY, norm, match>>

\* the last reply_text of a handler succeeds and the handler returns
ReplyDone(t) ==
  /\ t.pc = "reply"
  /\ Finish(t, "ReplyDone", "returned")
  /\ UNCHANGED <<history, log, nmsgs, BRSAPI_KEY, norm, match>>

\* the last reply_text of a handler raises: nothing catches it
ReplyFails(t) ==
  /\ t.pc = "reply"
  /\ Finish(t, "ReplyFails", "raised")
  /\ UNCHANGED <<history, log, nmsgs, BRSAPI_KEY, norm, match>>

\* the task is cancelled while suspended: CancelledError is not an Exception,
\* so no except clause of the handlers catches it
Cancel(t) ==
  /\ t.pc \in {"typing", "chat", "fetch", "reply", "reply_prices"}
  /\ Finish(t, "Cancel", "cancelled")
  /\ UNCHANGED <<history, log, nmsgs, BRSAPI_KEY, norm, match>>

(***************************************************************************)
(* Command handlers                                                        *)
(***************************************************************************)
\* a slip: the whole store is cleared
reset_history_all(h, uid) == [u \in DOMAIN h |-> <<>>]

\* history[uid].clear()
reset_history(h, uid) == [h EXCEPT ![uid] = <<>>]

\* reset up to its await of reply_text
Reset(uid) ==
  LET t2 == Task("reply", "reset", uid, <<>>, MSG_RESET)
  IN /\ nmsgs' = nmsgs + 1
     /\ history' = reset_history(history, uid)
     /\ log' = [log EXCEPT ![uid] = <<>>]
     /\ tasks' = Spawn(t2)
     /\ ev' = Event("Reset", Idle, t2, [NoUpdate EXCEPT !.uid = uid], "none", "none")
     /\ UNCHANGED <<BRSAPI_KEY, norm, match>>

\* price_cmd up to the first await of send_prices
PriceCmd(uid, args) ==
  LET q == IF Strip(args) = <<>> THEN DEFAULT_PRICE_QUERY ELSE Strip(args)
      t2 == send_prices_start("price_cmd", uid, q)
  IN /\ nmsgs' = nmsgs + 1
     /\ tasks' = Spawn(t2)
     /\ ev' = Event("PriceCmd", Idle, t2, [NoUpdate EXCEPT !.uid = uid], "none", "none")
     /\ UNCHANGED <<history, log, BRSAPI_KEY, norm, match>>

\* start up to its await of reply_text
Start(uid) ==
  LET t2 == Task("reply", "start", uid, <<>>, MSG_START)
  IN /\ nmsgs' = nmsgs + 1
     /\ tasks' = Spawn(t2)
     /\ ev' = Event("Start", Idle, t2, [NoUpdate EXCEPT !.uid = uid], "none", "none")
     /\ UNCHANGED <<history, log, BRSAPI_KEY, norm, match>>

(***************************************************************************)
(* The bot                                                                 *)
(***************************************************************************)
\* an update is dispatched to its handler while fewer than MaxTasks coroutines
\* are suspended
Dispatch ==
  /\ nmsgs < MaxMsgs
  /\ BagCardinality(tasks) < MaxTasks
  /\ \/ \E update \in Updates : HandleMessage(update)
     \/ \E uid \in Users : Reset(uid)
     \/ \E uid \in Users, args \in PriceCmdArgs : PriceCmd(uid, args)
     \/ \E uid \in Users : Start(uid)

\* the event loop resumes a suspended coroutine
Resume ==
  \E t \in Suspended :
    \/ TypingDone(t)
    \/ TypingFails(t)
    \/ \E content \in Completions : ChatReturns(t, content)
    \/ \E e \in UpstreamErrors : ChatRaises(t, e)
    \/ \E items \in FetchedItems : FetchReturns(t, items)
    \/ \E e \in UpstreamErrors : FetchRaises(t, e)
    \/ PricesReplyDone(t)
    \/ \E e \in PlatformErrors : PricesReplyFails(t, e)
    \/ ReplyDone(t)
    \/ ReplyFails(t)
    \/ Cancel(t)

Next == Dispatch \/ Resume

Spec == Init /\ [][Next]_vars

(***************************************************************************)
(* Long conversations: enough exchanges to fill the history buffer         *)
(***************************************************************************)
\* the updates delivered in one long run; more than MAX_TURNS exchanges
MaxLongMsgs == 12

LongUsers == {"u1"}

\* the failed completion calls whose error turn a long run may have on record
MaxFaults == 1

RECURSIVE ErrorTurns(_)
ErrorTurns(turns) ==
  IF turns = <<>> THEN 0
  ELSE (IF Head(turns).content = ChatErrorText("ReadTimeout") THEN 1 ELSE 0)
       + ErrorTurns(Tail(turns))

RECURSIVE FaultsOf(_)
FaultsOf(us) ==
  IF us = {} THEN 0
  ELSE LET u == CHOOSE x \in us : TRUE IN ErrorTurns(log[u]) + FaultsOf(us \ {u})

Faults == FaultsOf(Users)

LongDispatch ==
  /\ nmsgs < MaxLongMsgs
  /\ BagCardinality(tasks) < MaxTasks
  /\ \/ \E uid \in LongUsers : HandleMessage(Update(uid, "private", T_hi, FALSE))
     \/ \E uid \in LongUsers : Reset(uid)

LongResume ==
  \E t \in Suspended :
    \/ TypingDone(t)
    \/ ChatReturns(t, <<"o", "k">>)
    \/ (Faults < MaxFaults /\ ChatRaises(t, "ReadTimeout"))
    \/ ReplyDone(t)
    \/ Cancel(t)

LongNext == LongDispatch \/ LongResume

LongInit == Init /\ ~BRSAPI_KEY

LongSpec == LongInit /\ [][LongNext]_vars

(***************************************************************************)
(* _norm applied once and twice to bounded inputs                          *)
(***************************************************************************)
MaxNormLen == 4

NormAlphabet == {"a", "A", SP, TAB, ZWNJ, RLM, LRM, BOM}

NormInputs == UNION {[1..n -> NormAlphabet] : n \in 0..MaxNormLen}

Quiet ==
  /\ history = [u \in Users |-> <<>>]
  /\ log = [u \in Users |-> <<>>]
  /\ tasks = EmptyBag
  /\ nmsgs = 0
  /\ ev = Event("init", Idle, Idle, NoUpdate, "none", "none")
  /\ BRSAPI_KEY = FALSE

NormInit ==
  /\ Quiet
  /\ norm \in {[pc |-> "in", in |-> x, out1 |-> <<>>, out2 |-> <<>>] : x \in NormInputs}
  /\ match = MatchIdle

NormOnce ==
  /\ norm.pc = "in"
  /\ norm' = [norm EXCEPT !.pc = "once", !.out1 = _norm(norm.in)]
  /\ UNCHANGED <<history, log, tasks, nmsgs, ev, BRSAPI_KEY, match>>

NormTwice ==
  /\ norm.pc = "once"
  /\ norm' = [norm EXCEPT !.pc = "twice", !.out2 = _norm(norm.out1)]
  /\ UNCHANGED <<history, log, tasks, nmsgs, ev, BRSAPI_KEY, match>>

NormNext == NormOnce \/ NormTwice

NormSpec == NormInit /\ [][NormNext]_vars

(***************************************************************************)
(* find_best_matches and the selection of send_prices on bounded inputs    *)
(***************************************************************************)
\* the longest catalog of distinct pool items
MaxCat == 3

\* the longest catalog of filler items; longer than LIMIT
MaxLongCat == 7

\* the largest max_n below LIMIT
MaxN == 2

Pool == {I_usd, I_usd2, I_coin, I_gold}

Injective(f) == \A i, j \in DOMAIN f : i # j => f[i] # f[j]

ShortCatalogs == UNION {{c \in [1..n -> Pool] : Injective(c)} : n \in 0..MaxCat}

LongCatalogs ==
  UNION {{[i \in 1..n |-> Filler(i)], [i \in 1..n |-> Filler(i)] \o <<I_usd>>} :
           n \in (LIMIT + 1)..MaxLongCat}

Catalogs == ShortCatalogs \cup LongCatalogs

Queries ==
  { KW_dolar,
    KW_qeymat \o <<SP>> \o KW_dolar \o <<SP>> \o KW_alan,
    <<"u", "s", "d", "?">>,
    KW_sekke \o <<SP>> \o KW_tala,
    KW_dolar \o <<SP, SP>> \o KW_sekke,
    <<"1", "8">>,
    <<"x", "y", "z">>,
    <<>> }

MatchInit ==
  /\ Quiet
  /\ norm = NormIdle
  /\ match \in {[pc |-> "in", items |-> c, q |-> q, max_n |-> n, out |-> <<>>, sel |-> <<>>] :
                  c \in Catalogs, q \in Queries, n \in (1..MaxN) \cup {LIMIT}}

Rank ==
  /\ match.pc = "in"
  /\ match' = [match EXCEPT !.pc = "ranked",
                            !.out = find_best_matches(match.items, match.q, match.max_n)]
  /\ UNCHANGED <<history, log, tasks, nmsgs, ev, BRSAPI_KEY, norm>>

Select ==
  /\ match.pc = "ranked"
  /\ match' = [match EXCEPT !.pc = "selected", !.sel = select_matches(match.items, match.q)]
  /\ UNCHANGED <<history, log, tasks, nmsgs, ev, BRSAPI_KEY, norm>>

MatchNext == Rank \/ Select

MatchSpec == MatchInit /\ [][MatchNext]_vars

(***************************************************************************)
(* Properties                                                              *)
(***************************************************************************)
PosIn(items, it) == CHOOSE k \in 1..Len(items) : items[k] = it

\* C6: find_best_matches returns at most max_n items, each a catalog item that
\* scores above 0, in non-increasing score order, equal scores in catalog order
C6_RankedMatches ==
  match.pc \in {"ranked", "selected"} =>
    LET out == match.out
        items == match.items
        sc(it) == Score(it, match.q)
    IN /\ Len(out) <= match.max_n
       /\ \A i \in 1..Len(out) :
            /\ \E k \in 1..Len(items) : items[k] = out[i]
            /\ sc(out[i]) > 0
       /\ \A i, j \in 1..Len(out) :
            i < j => \/ sc(out[i]) > sc(out[j])
                     \/ (sc(out[i]) = sc(out[j]) /\ PosIn(items, out[i]) < PosIn(items, out[j]))

\* more items score above 0 than max_n, and two returned items tie
C6_Witness ==
  /\ match.pc = "ranked"
  /\ Len(match.out) = match.max_n
  /\ Len(Scored(match.items, match.q)) > match.max_n
  /\ \E i, j \in 1..Len(match.out) :
       i < j /\ Score(match.out[i], match.q) = Score(match.out[j], match.q)

NoItemScores(items, q) == \A k \in 1..Len(items) : Score(items[k], q) = 0

\* C7: with a non-empty catalog the selection for the price report is never
\* empty, and when no item scores above 0 it is the first LIMIT catalog items
C7_Fallback ==
  (match.pc = "selected" /\ match.items # <<>>) =>
    /\ match.sel # <<>>
    /\ NoItemScores(match.items, normalize_query_for_price(match.q)) =>
         /\ Len(match.sel) = (IF Len(match.items) < 6 THEN Len(match.items) ELSE 6)
         /\ \A i \in 1..Len(match.sel) : match.sel[i] = match.items[i]

\* a catalog longer than the limit, none of whose items matches the query
C7_Witness ==
  /\ match.pc = "selected"
  /\ Len(match.items) > 6
  /\ NoItemScores(match.items, normalize_query_for_price(match.q))
  /\ Len(match.sel) = 6

\* C8: _norm applied to its own result returns that result
C8_NormIdempotent == norm.pc = "twice" => norm.out2 = norm.out1

\* an input with an invisible character next to whitespace, changed by _norm
C8_Witness ==
  /\ norm.pc = "twice"
  /\ \E i \in 1..(Len(norm.in) - 1) : norm.in[i] = ZWNJ /\ norm.in[i + 1] \in WhiteSpace
  /\ \E i \in 1..Len(norm.in) : norm.in[i] = "A"
  /\ norm.out1 # norm.in
  /\ norm.out1 # <<>>

\* the last n entries of s
LastN(s, n) == IF Len(s) <= n THEN s ELSE SubSeq(s, Len(s) - n + 1, Len(s))

\* C1: a history buffer never holds more than 2 * MAX_TURNS turns and is the
\* tail, in order, of the turns appended for its user since the last reset
C1_BoundedRecent ==
  \A u \in Users :
    /\ Len(history[u]) <= 2 * MAX_TURNS
    /\ history[u] = LastN(log[u], 2 * MAX_TURNS)

\* more turns were appended than the buffer holds, and an evicted exchange
\* differs from the ones retained
C1_Witness ==
  \E u \in Users :
    /\ Len(log[u]) > 2 * MAX_TURNS
    /\ log[u][2] # log[u][Len(log[u])]

IsErrorText(answer, prefix, exc) == answer = <<prefix, exc>>

\* the turns of one exchange appended to a buffer of at most 2 * MAX_TURNS turns
WithExchange(h, user_text, answer) ==
  LastN(h \o <<Turn("user", user_text), Turn("assistant", answer)>>, 2 * MAX_TURNS)

HasCallName(text) ==
  \/ StartsWith(_norm(text), _norm(BOT_CALL_NAME))
  \/ StartsWith(RemoveChar(_norm(text), SP), RemoveChar(_norm(BOT_CALL_NAME), SP))

HasMention(text) == Contains(_norm(text), <<"@">> \o _norm(bot_username))

GatingMiss(update) ==
  \/ /\ update.chat_type \in {"group", "supergroup"}
     /\ ~HasCallName(update.text)
     /\ ~HasMention(update.text)
     /\ ~update.reply_to_bot
  \/ clean_user_text(Strip(update.text), bot_username) = <<>>

GatingMissOf == [update \in Updates |-> GatingMiss(update)]

\* C3: handle_message on a gating miss returns at once: no coroutine is left
\* waiting on a reply or an upstream call, nothing is raised, no history changes
C3_GatingMissSilent ==
  [][(ev'.op = "HandleMessage" /\ GatingMissOf[ev'.update]) =>
       /\ ev'.exit = "returned"
       /\ tasks' = tasks
       /\ history' = history]_vars

\* an unaddressed group message arrived while a history was not empty
C3_Witness ==
  /\ ev.op = "HandleMessage"
  /\ ev.update.chat_type = "group"
  /\ ev.update.text = T_hi
  /\ ~ev.update.reply_to_bot
  /\ history[ev.update.uid] # <<>>

\* C4: reset for a user empties that user's buffer and leaves the others as they were
C4_ResetFrame ==
  [][ev'.op = "Reset" =>
       /\ history'[ev'.update.uid] = <<>>
       /\ \A o \in Users \ {ev'.update.uid} : history'[o] = history[o]]_vars

\* a reset happened while another user had turns on record
C4_Witness ==
  /\ ev.op = "Reset"
  /\ history[ev.update.uid] = <<>>
  /\ \E o \in Users \ {ev.update.uid} : history[o] # <<>>

UserTurnsPaired(h) ==
  \A i \in 1..Len(h) :
    h[i].role = "user" => (i < Len(h) /\ h[i + 1].role = "assistant")

\* C5: turns are appended only by the step that has computed the answer, a
\* cancellation at the typing indicator or at the completion call appends
\* nothing, and every user turn on record is followed by its assistant turn
C5_NoPartialWrite ==
  /\ [](\A u \in Users : UserTurnsPaired(history[u]))
  /\ [][/\ (\E u \in Users : history'[u] # history[u] /\ history'[u] # <<>>) =>
             /\ ev'.op \in {"ChatReturns", "ChatRaises"}
             /\ ev'.now.pc = "reply"
             /\ ev'.now.answer # <<>>
             /\ LET h == history'[ev'.now.uid]
                IN h[Len(h)] = Turn("assistant", ev'.now.answer)
        /\ (ev'.op = "Cancel" /\ ev'.task.pc \in {"typing", "chat"}) => history' = history]_vars

\* a handler was cancelled at the completion call while turns were on record
C5_Witness ==
  /\ ev.op = "Cancel"
  /\ ev.task.pc = "chat"
  /\ \E u \in Users : history[u] # <<>>

Alternates(h) ==
  /\ Len(h) % 2 = 0
  /\ \A i \in 1..Len(h) : h[i].role = (IF i % 2 = 1 THEN "user" ELSE "assistant")

\* C9: whenever a task can run, every history has even length and alternates
\* user, assistant, ... from a user turn on
C9_Alternation == \A u \in Users : Alternates(history[u])

\* an exchange was appended to a full buffer while another handler of the same
\* user was waiting for its completion
C9_Witness ==
  /\ ev.op \in {"ChatReturns", "ChatRaises"}
  /\ \E u \in Users :
       /\ Len(log[u]) > 2 * MAX_TURNS
       /\ Len(history[u]) = 2 * MAX_TURNS
       /\ \E t \in Suspended : t.pc = "chat" /\ t.uid = u

\* the cleaned utterance of an update is a price query
PriceQuery(update) ==
  looks_like_price_request(clean_user_text(Strip(update.text), bot_username))

PriceQueryOf == [update \in Updates |-> PriceQuery(update)]

PriceTextOf == [t \in {UserTextOf[update] : update \in Updates} |-> looks_like_price_request(t)]

\* C10: a handle_message coroutine of a price query never waits on the typing
\* indicator or the completion service and none of its steps changes a history;
\* a handle_message coroutine waits on the market-data path only for a price query
C10_PriceRouting ==
  /\ [](\A t \in Suspended :
          t.kind = "message" =>
            /\ t.pc \in {"typing", "chat"} => ~PriceTextOf[t.user_text]
            /\ t.pc \in {"fetch", "reply_prices"} => PriceTextOf[t.user_text])
  /\ [][/\ (ev'.op = "HandleMessage" /\ ~GatingMissOf[ev'.update] /\ PriceQueryOf[ev'.update]) =>
             /\ ev'.now.pc \in {"fetch", "reply"}
             /\ ev'.now \in BagToSet(tasks')
             /\ history' = history
        /\ (ev'.op = "HandleMessage" /\ ~PriceQueryOf[ev'.update]) =>
             ev'.now.pc \notin {"fetch", "reply_prices", "reply"}
        /\ (/\ ev'.task.kind = "message"
            /\ PriceTextOf[ev'.task.user_text]) => history' = history]_vars

\* a failed fetch of a price query sent to handle_message, with turns on record
C10_Witness ==
  /\ ev.op = "FetchRaises"
  /\ ev.task.kind = "message"
  /\ \E u \in Users : history[u] # <<>>

====
